---- MODULE Spec2Model ----
(***************************************************************************)
(* Model of youtube_playlist_to_text.py: main() drives client set-up, URL  *)
(* resolution (get_video_list), the download loop                          *)
(* (download_audio_if_needed), the transcription loop (transcribe_audio    *)
(* with its retry/backoff loop) and the completion summary.                *)
(*                                                                         *)
(* External collaborators (the OpenAI client, yt-dlp, the file system) are *)
(* modelled by their observable outcomes, chosen nondeterministically.     *)
(* Audio files are numbered; the numeric order stands for the lexical      *)
(* order of the file names, and file f has stem f (f.mp3 -> f.txt).        *)
(***************************************************************************)
EXTENDS Integers, Sequences, FiniteSets, TLC

\* ------------------------------------------------------------------ bounds
\* number of distinct audio file names / video identifiers
NumFiles == 2
\* longest playlist the metadata tool reports
MaxVideos == 2

\* ------------------------------------------------------- program constants
\* transcribe_audio(file_path, client, max_retries=3)
max_retries == 3
\* wait_time = (attempt + 1) * 60
RateLimitUnit == 60
\* time.sleep(5) in the generic except branch
GenericWait == 5
\* --delay default
DefaultDelay == 5
\* check_file_size(file_path, max_size_mb=25)
MaxSizeMb == 25

Files == 1..NumFiles
VideoIds == 1..NumFiles
\* values of --delay exercised (non-negative)
Delays == {0, DefaultDelay}

\* ----------------------------------------------------------------- values
\* Optional text: Python's None versus a str
None == [some |-> FALSE, text |-> ""]
Some(t) == [some |-> TRUE, text |-> t]
\* texts the transcription service may return, the empty text included
ApiTexts == {"", "hello"}
\* content of a transcript left by an earlier run
OldText == "old"

\* URLs: args.url, and the canonical watch URL built from an entry id
OrigUrl == <<"orig", 1>>
WatchUrl(id) == <<"watch", id>>
\* "--output %(title)s.%(ext)s --restrict-filenames": the audio file name is
\* a function of the video; args.url, when it is a single video, is video 1
FileOf(url) == url[2]

\* a metadata entry is the value of its 'id' key; an entry outside VideoIds
\* stands for an entry without an 'id' key
EntryIds == 0..NumFiles
HasId(e) == e \in VideoIds

VARIABLES
  pc,                \* position in main()
  exit_code,         \* process exit status once pc = "exited"; -1 while running
  args_delay,        \* args.delay
  downloads,         \* set of *.mp3 files in downloads/
  transcripts,       \* output dir: stem -> optional text
  video_urls,        \* main: video_urls
  vi,                \* main: index of the download loop (1-based)
  downloaded_files,  \* main: downloaded_files
  all_mp3_files,     \* main: all_mp3_files
  i,                 \* main: index of the transcription loop (1-based)
  transcribed_count, \* main: transcribed_count
  skipped_count,     \* main: skipped_count
  text,              \* main: text, the value transcribe_audio returned
  summary,           \* the printed completion summary, None-like before it
  \* ---- observations of the run (what an observer of the I/O would record)
  client,            \* "none" | "ok" | "failed": OpenAI(...) outcome
  resolved,          \* what the metadata tool did for get_video_list: how it
                     \* ended and the entries it listed
  dlVisited,         \* URLs handed to the downloader, in order
  lastDl,            \* the latest call of download_audio_if_needed, while the
                     \* download loop runs: what it saw and returned
  nReturned,         \* calls of download_audio_if_needed that returned an asset
  prev,              \* the disk as the previous run of the program left it
  prevText,          \* audio files the service returned a text for in an
                     \* earlier run
  curText,           \* audio files the service returned a text for in this run
  visited,           \* audio files reached by the transcription loop, in order
  tScript,           \* transcribe_audio alone: what each attempt will meet
  tMax,              \* transcribe_audio alone: its max_retries argument
  tRet,              \* transcribe_audio alone: what the call did and returned
  gIn,               \* get_video_list alone: its url and what the tool produced
  gOut,              \* get_video_list alone: whether it returned, and what
  apiCalls,          \* transcription API calls made in this run
  nExisted,          \* items whose transcript already existed when reached
  nAbsent,           \* items for which transcribe_audio returned None
  last,              \* what happened to the most recently finished item
  sinceSuccess,      \* "none" | "nosleep" | "slept": pacing since the last
                     \* transcription the service completed
  sleepPending       \* a pacing sleep was made and no API call has followed it

vars == <<pc, exit_code, args_delay, downloads, transcripts, video_urls, vi,
          downloaded_files, all_mp3_files, i, transcribed_count, skipped_count,
          text, summary, client, resolved, dlVisited, lastDl, nReturned,
          prev, prevText, curText, visited,
          tScript, tMax, tRet, gIn, gOut, apiCalls, nExisted, nAbsent, last, sinceSuccess,
          sleepPending>>

\* ------------------------------------------------------------ pure helpers
RECURSIVE SortedSeq(_)
\* sorted(downloads_path.glob("*.mp3"))
SortedSeq(S) ==
  IF S = {} THEN <<>>
  ELSE LET m == CHOOSE x \in S : \A y \in S : x <= y
       IN  <<m>> \o SortedSeq(S \ {m})

\* Python truthiness of the value transcribe_audio returned: "if text:"
Truthy(r) == r.some /\ r.text # ""

\* transcript_file = transcripts_path / f"{mp3_file.stem}.txt"
StemOf(f) == f

\* variant: the existence check looks in the wrong directory and finds nothing
TranscriptExists_WrongDir(ts, f) == FALSE

\* transcript_file.exists()
TranscriptExists(ts, f) == ts[StemOf(f)].some

\* sequences over S of length at most n
RECURSIVE SeqsUpTo(_, _)
SeqsUpTo(S, n) ==
  IF n = 0 THEN {<<>>}
  ELSE LET shorter == SeqsUpTo(S, n - 1)
       IN  shorter \cup {Append(q, x) : q \in {r \in shorter : Len(r) = n - 1}, x \in S}

\* ---------------------------------------------------------- get_video_list
\* what "yt-dlp --flat-playlist -J url" can produce
Metadata ==
  [entries : SeqsUpTo(EntryIds, MaxVideos), has_id : BOOLEAN]

ResolveOutcomes ==
  {[kind |-> "nonzero", data |-> [entries |-> <<>>, has_id |-> FALSE]],
   [kind |-> "unparsable", data |-> [entries |-> <<>>, has_id |-> FALSE]]}
  \cup {[kind |-> "json", data |-> d] : d \in Metadata}

\* the URLs a user may pass as args.url, each naming a video
InputUrls == {<<"orig", v>> : v \in VideoIds}

\* before get_video_list has run
NotResolved == [kind |-> "none", entries |-> <<>>]

\* some entry has no 'id': entry['id'] raises KeyError
BadEntry(data) == \E k \in 1..Len(data.entries) : ~HasId(data.entries[k])

\* variant: "if data.get('id')" without "not entries"
VideoList_SingleWheneverId(url, data) ==
  IF data.has_id
  THEN <<url>>
  ELSE [k \in 1..Len(data.entries) |-> WatchUrl(data.entries[k])]

\* the list get_video_list(url) returns from parsed metadata
VideoList(url, data) ==
  IF data.entries = <<>> /\ data.has_id
  THEN <<url>>
  ELSE [k \in 1..Len(data.entries) |-> WatchUrl(data.entries[k])]

\* variant: only the non-zero exit is treated as fatal
ResolutionFails_OnlyNonZero(o) == o.kind = "nonzero"

\* get_video_list fails: CalledProcessError -> sys.exit(1); an uncaught
\* JSONDecodeError / KeyError ends the interpreter with status 1
ResolutionFails(o) ==
  \/ o.kind = "nonzero"
  \/ o.kind = "unparsable"
  \/ o.kind = "json" /\ BadEntry(o.data)

\* ------------------------------------------------ download_audio_if_needed
\* the *.mp3 set after yt-dlp ran: when it produced the video's audio the
\* file is in place (yt-dlp does not fetch a file that is already there)
AfterFiles(before, url, produced) ==
  IF produced THEN before \cup {FileOf(url)} ELSE before

\* sizes of a fetched file, in MB: at the ceiling and above it
SizesMb == {MaxSizeMb, MaxSizeMb + 1}

\* check_file_size: False when size_mb > max_size_mb
CheckFileSize(size_mb) == ~(size_mb > MaxSizeMb)

\* variant: an oversized file is rejected
ReturnedAsset_RejectOversized(new_files, size_ok) ==
  IF size_ok THEN new_files ELSE {}

\* what download_audio_if_needed may return, given new_files and the result
\* of check_file_size, which it ignores: one of new_files, or None ({})
ReturnedAsset(new_files, size_ok) == new_files

\* no call of download_audio_if_needed observed
NoDl == [called |-> FALSE, exit0 |-> FALSE, before |-> {}, after |-> {},
         big |-> FALSE, ret |-> {}]

\* new_files = after_files - before_files, when the command succeeded
NewFiles(before, after, exit0) ==
  IF exit0 THEN after \ before ELSE {}

\* --------------------------------------------------------- transcribe_audio
\* outcome of one pass through the try block: the open() may fail before
\* the request is sent; the service answers with a text, a RateLimitError
\* or another error; quota says "insufficient_quota" is in str(e).lower()
Outcomes ==
  {[kind |-> "ok", quota |-> FALSE, text |-> t] : t \in ApiTexts}
  \cup {[kind |-> k, quota |-> q, text |-> ""] :
          k \in {"ratelimit", "error"}, q \in BOOLEAN}
  \cup {[kind |-> "openerr", quota |-> FALSE, text |-> ""]}

\* client.audio.transcriptions.create was called
IsApiCall(o) == o.kind # "openerr"

\* variant: the quota message is never recognised
IsQuota_Never(o) == FALSE

\* except RateLimitError ... if "insufficient_quota" in str(e).lower()
IsQuota(o) == o.kind = "ratelimit" /\ o.quota

\* variant: the retry loop gives up one attempt early
MayRetry_OneShort(a, m) == a < m - 2

\* "if attempt < max_retries - 1": sleep and continue
MayRetry(a, m) == a < m - 1

\* variant: the rate-limit backoff is computed from the 0-based index
BackoffWait_ZeroBased(o, a) ==
  IF o.kind = "ratelimit" THEN a * RateLimitUnit ELSE GenericWait

\* the backoff slept after a failed attempt a (0-based)
BackoffWait(o, a) ==
  IF o.kind = "ratelimit" THEN (a + 1) * RateLimitUnit ELSE GenericWait

\* variant: "return transcript.text or None"
ReturnText_OrNone(o) == IF o.text = "" THEN None ELSE Some(o.text)

\* "return transcript.text"
ReturnText(o) == Some(o.text)

\* what a call of transcribe_audio did: the value returned, the number of
\* loop iterations entered, of API calls made, and the sleeps in order
CallResult(t, n, c, w) == [text |-> t, attempts |-> n, calls |-> c, waits |-> w]

\* the bookkeeping after an attempt met outcome o
CallsAfter(c, o) == IF IsApiCall(o) THEN c + 1 ELSE c

RECURSIVE AttemptLoop(_, _, _, _, _)
\* "for attempt in range(max_retries)" from iteration a on, where script[a+1]
\* is what iteration a meets; c and w accumulate the calls and the sleeps
AttemptLoop(script, m, a, c, w) ==
  IF a >= m
  THEN CallResult(None, a, c, w)                       \* loop exhausted: return None
  ELSE LET o == script[a + 1]
           c1 == CallsAfter(c, o)
       IN  IF o.kind = "ok"
           THEN CallResult(ReturnText(o), a + 1, c1, w) \* return transcript.text
           ELSE IF IsQuota(o)
           THEN CallResult(None, a + 1, c1, w)         \* insufficient quota
           ELSE IF MayRetry(a, m)
           THEN AttemptLoop(script, m, a + 1, c1,      \* sleep; continue
                            Append(w, BackoffWait(o, a)))
           ELSE CallResult(None, a + 1, c1, w)         \* max retries reached

\* transcribe_audio(file_path, client, max_retries)
TranscribeAudio(script, m) == AttemptLoop(script, m, 0, 0, <<>>)

\* what the attempts of one call can meet, one outcome per possible attempt
Scripts == [1..max_retries -> Outcomes]

\* what main can observe of a call with the default max_retries: the value
\* returned and the API calls made, over every script
MainCalls ==
  {[text |-> TranscribeAudio(script, max_retries).text,
    calls |-> TranscribeAudio(script, max_retries).calls] : script \in Scripts}

\* the attempts a call with the default max_retries can take, over every script
CallAttempts == {TranscribeAudio(script, max_retries).attempts : script \in Scripts}

NoRet == [done |-> FALSE, res |-> CallResult(None, 0, 0, <<>>)]

\* get_video_list not called
NoListIn == [url |-> OrigUrl,
             tool |-> [kind |-> "none", data |-> [entries |-> <<>>, has_id |-> FALSE]]]
NoListOut == [done |-> FALSE, returned |-> FALSE, urls |-> <<>>]

\* -------------------------------------------------------------------- main
\* variant: the transcription phase starts once one video was handled
DownloadsDone_AfterFirst(v, urls) == v > 1

\* the download loop "for i, url in enumerate(video_urls, 1)" is exhausted
DownloadsDone(v, urls) == v > Len(urls)

\* variant: only the files fetched by this run are transcribed
EnumeratedAudio_OnlyFetched(dl, fetched) == fetched

\* all_mp3_files: every *.mp3 in downloads/, whatever this run fetched
EnumeratedAudio(dl, fetched) == SortedSeq(dl)

\* variant: the pacing sleep follows every saved transcript
ShouldPace_Always(idx, n) == TRUE

\* "if i < len(all_mp3_files)": pace after a saved transcript
ShouldPace(idx, n) == idx < n

\* variant: the loop stops at the first item that got no text
AfterItem_BreakOnFailure(idx, n, gotText) == IF gotText THEN idx + 1 ELSE n + 1

\* variant: an item that got no text is tried again
AfterItem_StayOnFailure(idx, n, gotText) == IF gotText THEN idx + 1 ELSE idx

\* the for loop over all_mp3_files moves on to the next item, whatever
\* happened to item idx of n
AfterItem(idx, n, gotText) == idx + 1

\* variant: the run reports its failed items through the exit status
ExitStatusAfterSummary_FailuresNonZero == IF nAbsent > 0 THEN 1 ELSE 0

\* main returns after the summary: the interpreter ends with status 0
ExitStatusAfterSummary == 0

\* skipped_count after the else branch (transcribe_audio returned no text)
SkippedAfterNoText(s) == s + 1

\* variant: the skipped items are not subtracted
FailedCount_IgnoresSkipped(total, t, s) == total - t

\* len(all_mp3_files) - transcribed_count - skipped_count
FailedCount(total, t, s) == total - t - s

\* no earlier run
NoPrev == [ran |-> FALSE, downloads |-> {}, transcripts |-> [f \in Files |-> None]]

NoSummary == [printed |-> FALSE, total |-> 0, transcribed |-> 0,
              skipped |-> 0, failed |-> 0]
NoLast == [kind |-> "none", idx |-> 0, paced |-> FALSE, slept |-> 0]

Init ==
  /\ pc = "client"
  /\ exit_code = -1
  /\ args_delay \in Delays
  /\ downloads \in SUBSET Files
  /\ transcripts \in [Files -> {None, Some(OldText)}]
  /\ video_urls = <<>>
  /\ vi = 1
  /\ downloaded_files = <<>>
  /\ all_mp3_files = <<>>
  /\ i = 1
  /\ transcribed_count = 0
  /\ skipped_count = 0
  /\ text = None
  /\ summary = NoSummary
  /\ client = "none"
  /\ resolved = NotResolved
  /\ dlVisited = <<>>
  /\ lastDl = NoDl
  /\ nReturned = 0
  /\ prev = NoPrev
  /\ prevText = {}
  /\ curText = {}
  /\ visited = <<>>
  /\ tScript = <<>>
  /\ tMax = max_retries
  /\ tRet = NoRet
  /\ gIn = NoListIn
  /\ gOut = NoListOut
  /\ apiCalls = 0
  /\ nExisted = 0
  /\ nAbsent = 0
  /\ last = NoLast
  /\ sinceSuccess = "none"
  /\ sleepPending = FALSE

diskVars == <<downloads, transcripts>>
runVars == <<prev, prevText, curText>>
dlVars == <<video_urls, vi, downloaded_files, dlVisited, lastDl, nReturned>>
loopVars == <<all_mp3_files, i, transcribed_count, skipped_count, visited,
              nExisted, nAbsent, last, sinceSuccess, sleepPending>>
callVars == <<text, apiCalls>>
unitVars == <<tScript, tMax, tRet, gIn, gOut>>

\* client = OpenAI(api_key=args.api_key); except Exception: sys.exit(1)
InitClient ==
  /\ pc = "client"
  /\ \E ok \in BOOLEAN :
       /\ client' = (IF ok THEN "ok" ELSE "failed")
       /\ pc' = (IF ok THEN "resolve" ELSE "exited")
       /\ exit_code' = (IF ok THEN exit_code ELSE 1)
  /\ UNCHANGED <<runVars, unitVars, args_delay, diskVars, dlVars, loopVars, callVars, summary, resolved>>

\* video_urls = get_video_list(args.url)
GetVideoList ==
  /\ pc = "resolve"
  /\ \E o \in ResolveOutcomes :
       /\ resolved' = [kind |-> o.kind, entries |-> o.data.entries]
       /\ IF ResolutionFails(o)
          THEN /\ pc' = "exited"
               /\ exit_code' = 1
               /\ UNCHANGED video_urls
          ELSE /\ video_urls' = VideoList(OrigUrl, o.data)
               /\ pc' = "download"
               /\ UNCHANGED exit_code
  /\ UNCHANGED <<runVars, unitVars, args_delay, diskVars, vi, downloaded_files, dlVisited,
                 lastDl, nReturned, loopVars, callVars, summary, client>>

\* one iteration of "for i, url in enumerate(video_urls, 1)"
DownloadStep ==
  /\ pc = "download"
  /\ vi <= Len(video_urls)
  /\ LET url == video_urls[vi]
         before_files == downloads
     IN  \E exit0 \in BOOLEAN, produced \in BOOLEAN, size_mb \in SizesMb :
           LET after_files == AfterFiles(before_files, url, produced)
               new_files == NewFiles(before_files, after_files, exit0)
               size_ok == CheckFileSize(size_mb)
               assets == ReturnedAsset(new_files, size_ok)
               seen(r) == [called |-> TRUE, exit0 |-> exit0,
                           before |-> before_files, after |-> after_files,
                           big |-> (new_files # {} /\ ~size_ok), ret |-> r]
           IN  /\ downloads' = after_files
               /\ IF assets # {}
                  THEN \E mp3_file \in assets :
                         /\ downloaded_files' = Append(downloaded_files, mp3_file)
                         /\ lastDl' = seen({mp3_file})
                         /\ nReturned' = nReturned + 1
                  ELSE /\ lastDl' = seen({})
                       /\ UNCHANGED <<downloaded_files, nReturned>>
               /\ dlVisited' = Append(dlVisited, url)
  /\ vi' = vi + 1
  /\ UNCHANGED <<runVars, unitVars, pc, exit_code, args_delay, transcripts, video_urls, loopVars,
                 callVars, summary, client, resolved>>

\* the download loop is over: all_mp3_files = sorted(downloads_path.glob("*.mp3"))
EnumerateAudio ==
  /\ pc = "download"
  /\ DownloadsDone(vi, video_urls)
  /\ all_mp3_files' = EnumeratedAudio(downloads, downloaded_files)
  /\ i' = 1
  /\ transcribed_count' = 0
  /\ skipped_count' = 0
  /\ pc' = "item"
  /\ lastDl' = NoDl
  /\ UNCHANGED <<runVars, unitVars, exit_code, args_delay, diskVars, video_urls, vi,
                 downloaded_files, dlVisited, nReturned, callVars, summary,
                 client, resolved, visited, nExisted, nAbsent, last, sinceSuccess,
                 sleepPending>>

\* "if transcript_file.exists(): skipped_count += 1; continue"
SkipExisting ==
  /\ pc = "item"
  /\ i <= Len(all_mp3_files)
  /\ TranscriptExists(transcripts, all_mp3_files[i])
  /\ skipped_count' = skipped_count + 1
  /\ i' = i + 1
  /\ visited' = Append(visited, all_mp3_files[i])
  /\ nExisted' = nExisted + 1
  /\ last' = [kind |-> "skipped", idx |-> i, paced |-> FALSE, slept |-> 0]
  /\ UNCHANGED <<runVars, unitVars, pc, exit_code, args_delay, diskVars, dlVars, callVars, summary,
                 client, resolved, all_mp3_files, transcribed_count, nAbsent,
                 sinceSuccess, sleepPending>>

\* "text = transcribe_audio(mp3_file, client)"
CallTranscribe ==
  /\ pc = "item"
  /\ i <= Len(all_mp3_files)
  /\ ~TranscriptExists(transcripts, all_mp3_files[i])
  /\ visited' = Append(visited, all_mp3_files[i])
  /\ \E r \in MainCalls :
       /\ text' = r.text
       /\ apiCalls' = apiCalls + r.calls
       /\ sleepPending' = (sleepPending /\ r.calls = 0)
  /\ pc' = "returned"
  /\ UNCHANGED <<runVars, exit_code, args_delay, diskVars, dlVars, summary, client,
                 resolved, all_mp3_files, i, transcribed_count, skipped_count,
                 nExisted, nAbsent, last, sinceSuccess, unitVars>>

\* "if text: write, count, pace  else: skipped_count += 1", then the next item
HandleResult ==
  /\ pc = "returned"
  /\ LET f == all_mp3_files[i]
         n == Len(all_mp3_files)
     IN  IF Truthy(text)
         THEN /\ transcripts' = [transcripts EXCEPT ![StemOf(f)] = Some(text.text)]
              /\ transcribed_count' = transcribed_count + 1
              /\ last' = [kind |-> "ok", idx |-> i, paced |-> ShouldPace(i, n),
                          slept |-> IF ShouldPace(i, n) THEN args_delay ELSE 0]
              /\ sinceSuccess' = (IF ShouldPace(i, n) THEN "slept" ELSE "nosleep")
              /\ sleepPending' = (sleepPending \/ ShouldPace(i, n))
              /\ UNCHANGED <<skipped_count, nAbsent>>
         ELSE /\ skipped_count' = SkippedAfterNoText(skipped_count)
              /\ last' = [kind |-> IF text.some THEN "empty" ELSE "absent",
                          idx |-> i, paced |-> FALSE, slept |-> 0]
              /\ nAbsent' = (IF text.some THEN nAbsent ELSE nAbsent + 1)
              /\ sinceSuccess' = (IF text.some THEN "nosleep" ELSE sinceSuccess)
              /\ UNCHANGED <<transcripts, transcribed_count, sleepPending>>
  /\ curText' = (IF text.some THEN curText \cup {all_mp3_files[i]} ELSE curText)
  /\ i' = AfterItem(i, Len(all_mp3_files), Truthy(text))
  /\ pc' = "item"
  /\ UNCHANGED <<prev, prevText, unitVars, exit_code, args_delay, downloads, dlVars, callVars, summary,
                 client, resolved, all_mp3_files, visited, nExisted>>

\* the loop is over: print the completion summary; main returns
PrintSummary ==
  /\ pc = "item"
  /\ i > Len(all_mp3_files)
  /\ summary' = [printed |-> TRUE,
                 total |-> Len(all_mp3_files),
                 transcribed |-> transcribed_count,
                 skipped |-> skipped_count,
                 failed |-> FailedCount(Len(all_mp3_files), transcribed_count,
                                        skipped_count)]
  /\ pc' = "exited"
  /\ exit_code' = ExitStatusAfterSummary
  /\ UNCHANGED <<runVars, unitVars, args_delay, diskVars, dlVars, loopVars, callVars, client, resolved>>

Next ==
  \/ InitClient
  \/ GetVideoList
  \/ DownloadStep
  \/ EnumerateAudio
  \/ SkipExisting
  \/ CallTranscribe
  \/ HandleResult
  \/ PrintSummary

Spec == Init /\ [][Next]_vars

\* ------------------------------------------------- the program run again

\* the program is started again after a run has ended: a new process, the
\* same directories
Rerun ==
  /\ pc = "exited"
  /\ prev' = [ran |-> TRUE, downloads |-> downloads, transcripts |-> transcripts]
  /\ prevText' = prevText \cup curText
  /\ curText' = {}
  /\ pc' = "client"
  /\ exit_code' = -1
  /\ args_delay' \in Delays
  /\ video_urls' = <<>>
  /\ vi' = 1
  /\ downloaded_files' = <<>>
  /\ all_mp3_files' = <<>>
  /\ i' = 1
  /\ transcribed_count' = 0
  /\ skipped_count' = 0
  /\ text' = None
  /\ summary' = NoSummary
  /\ client' = "none"
  /\ resolved' = NotResolved
  /\ dlVisited' = <<>>
  /\ lastDl' = NoDl
  /\ nReturned' = 0
  /\ visited' = <<>>
  /\ apiCalls' = 0
  /\ nExisted' = 0
  /\ nAbsent' = 0
  /\ last' = NoLast
  /\ sinceSuccess' = "none"
  /\ sleepPending' = FALSE
  /\ UNCHANGED <<diskVars, unitVars>>

NextRerun ==
  \/ Next
  \/ Rerun

SpecRerun == Init /\ [][NextRerun]_vars

\* ---------------------------------------- transcribe_audio checked on its own
\* the program stands before main(); only a call of transcribe_audio is made,
\* for every max_retries up to the default and every script of outcomes
InitUnit ==
  /\ pc = "unit"
  /\ exit_code = -1
  /\ args_delay = DefaultDelay
  /\ downloads = {}
  /\ transcripts = [f \in Files |-> None]
  /\ video_urls = <<>>
  /\ vi = 1
  /\ downloaded_files = <<>>
  /\ all_mp3_files = <<>>
  /\ i = 1
  /\ transcribed_count = 0
  /\ skipped_count = 0
  /\ text = None
  /\ summary = NoSummary
  /\ client = "none"
  /\ resolved = NotResolved
  /\ dlVisited = <<>>
  /\ lastDl = NoDl
  /\ nReturned = 0
  /\ prev = NoPrev
  /\ prevText = {}
  /\ curText = {}
  /\ visited = <<>>
  /\ tScript \in Scripts
  /\ tMax \in 0..max_retries
  /\ tRet = NoRet
  /\ gIn = NoListIn
  /\ gOut = NoListOut
  /\ apiCalls = 0
  /\ nExisted = 0
  /\ nAbsent = 0
  /\ last = NoLast
  /\ sinceSuccess = "none"
  /\ sleepPending = FALSE

CallUnit ==
  /\ pc = "unit"
  /\ ~tRet.done
  /\ tRet' = [done |-> TRUE, res |-> TranscribeAudio(tScript, tMax)]
  /\ UNCHANGED <<runVars, pc, exit_code, args_delay, diskVars, dlVars, loopVars, callVars,
                 summary, client, resolved, tScript, tMax, gIn, gOut>>

NextUnit == CallUnit

SpecUnit == InitUnit /\ [][NextUnit]_vars

\* ------------------------------------------ get_video_list checked on its own
\* for every url and everything the metadata tool can produce
InitResolve ==
  /\ pc = "unit"
  /\ exit_code = -1
  /\ args_delay = DefaultDelay
  /\ downloads = {}
  /\ transcripts = [f \in Files |-> None]
  /\ video_urls = <<>>
  /\ vi = 1
  /\ downloaded_files = <<>>
  /\ all_mp3_files = <<>>
  /\ i = 1
  /\ transcribed_count = 0
  /\ skipped_count = 0
  /\ text = None
  /\ summary = NoSummary
  /\ client = "none"
  /\ resolved = NotResolved
  /\ dlVisited = <<>>
  /\ lastDl = NoDl
  /\ nReturned = 0
  /\ prev = NoPrev
  /\ prevText = {}
  /\ curText = {}
  /\ visited = <<>>
  /\ tScript = <<>>
  /\ tMax = max_retries
  /\ tRet = NoRet
  /\ gIn \in [url : InputUrls, tool : ResolveOutcomes]
  /\ gOut = NoListOut
  /\ apiCalls = 0
  /\ nExisted = 0
  /\ nAbsent = 0
  /\ last = NoLast
  /\ sinceSuccess = "none"
  /\ sleepPending = FALSE

\* get_video_list(url): it returns a list, or the process ends inside it
CallResolve ==
  /\ pc = "unit"
  /\ ~gOut.done
  /\ gOut' = IF ResolutionFails(gIn.tool)
             THEN [done |-> TRUE, returned |-> FALSE, urls |-> <<>>]
             ELSE [done |-> TRUE, returned |-> TRUE,
                   urls |-> VideoList(gIn.url, gIn.tool.data)]
  /\ UNCHANGED <<runVars, pc, exit_code, args_delay, diskVars, dlVars, loopVars, callVars,
                 summary, client, resolved, tScript, tMax, tRet, gIn>>

NextResolve == CallResolve

SpecResolve == InitResolve /\ [][NextResolve]_vars

TypeOK ==
  /\ pc \in {"client", "resolve", "download", "item", "returned", "exited"}
  /\ exit_code \in {-1, 0, 1}
  /\ downloads \subseteq Files
  /\ i \in 1..(NumFiles + 1)

\* ======================================================================
\* Properties
\* ======================================================================

\* the metadata tool exited non-zero, printed no JSON, or listed an entry
\* without an identifier
ToolFailed ==
  \/ resolved.kind \in {"nonzero", "unparsable"}
  \/ resolved.kind = "json"
       /\ \E k \in 1..Len(resolved.entries) : resolved.entries[k] \notin VideoIds
ToolSucceeded == resolved.kind = "json" /\ ~ToolFailed

\* the process has ended
Terminated == pc = "exited"

\* attempt n of the call under test is made: no earlier attempt ended the call
Reached(n) ==
  \A k \in 1..(n - 1) :
    /\ tScript[k].kind # "ok"
    /\ ~(tScript[k].kind = "ratelimit" /\ tScript[k].quota)

\* the service was called in n of the first k attempts
ServiceCalls(k) == Cardinality({j \in 1..k : tScript[j].kind # "openerr"})

\* ---------------------------------------------------------------- C1
\* C1: when the transcription loop reaches an audio file whose transcript
\* file exists, the step that handles it makes no API call, adds exactly one
\* to the skipped count, leaves the transcribed count and the transcript
\* alone, and moves on to the next file.
C1_SkipExistingMakesNoCall ==
  [][(/\ pc = "item"
      /\ i <= Len(all_mp3_files)
      /\ transcripts[all_mp3_files[i]].some)
     => (/\ apiCalls' = apiCalls
         /\ skipped_count' = skipped_count + 1
         /\ transcribed_count' = transcribed_count
         /\ transcripts' = transcripts
         /\ pc' = "item"
         /\ i' = i + 1)]_vars

C1_Witness ==
  /\ last.kind = "skipped"
  /\ skipped_count = 1
  /\ transcribed_count = 1
  /\ apiCalls > 0

\* ---------------------------------------------------------------- C2
\* C2: if every attempt of a call reaches the service and fails with a
\* transient failure (a rate-limit error without quota exhaustion, or another
\* error), the call makes exactly max_retries API calls and returns None.
AllTransient ==
  \A k \in 1..tMax :
    /\ tScript[k].kind \in {"ratelimit", "error"}
    /\ ~(tScript[k].kind = "ratelimit" /\ tScript[k].quota)

C2_RetryCeiling ==
  (tRet.done /\ AllTransient)
    => /\ tRet.res.calls = tMax
       /\ tRet.res.attempts = tMax
       /\ tRet.res.text = None

C2_Witness ==
  /\ tRet.done
  /\ AllTransient
  /\ tMax = max_retries
  /\ tScript[1].kind = "ratelimit"
  /\ tScript[2].kind = "error"
  /\ tRet.res.calls = max_retries

\* ---------------------------------------------------------------- C3
\* C3: when attempt n of a call (1 <= n <= max_retries) meets quota
\* exhaustion, the call returns None at once: attempt n is its last, no API
\* call follows it, and no sleep follows it (the only sleeps are the n - 1
\* backoffs before it).
C3_QuotaShortCircuit ==
  tRet.done =>
    \A n \in 1..tMax :
      (Reached(n) /\ tScript[n].kind = "ratelimit" /\ tScript[n].quota)
        => /\ tRet.res.text = None
           /\ tRet.res.attempts = n
           /\ tRet.res.calls = ServiceCalls(n)
           /\ Len(tRet.res.waits) = n - 1

C3_Witness ==
  /\ tRet.done
  /\ tMax = max_retries
  /\ tScript[1].kind = "ratelimit" /\ tScript[1].quota
  /\ tRet.res.attempts = 1
  /\ tRet.res.calls = 1
  /\ tRet.res.waits = <<>>

\* ---------------------------------------------------------------- C4
\* C4: in the printed summary, transcribed + skipped + failed equals the number
\* of audio files enumerated in the download directory, none of the three is
\* negative, and the transcribed and skipped figures are the run's counters.
C4_CountsReconcile ==
  summary.printed =>
    /\ summary.total = Cardinality(downloads)
    /\ summary.total = Len(all_mp3_files)
    /\ summary.transcribed + summary.skipped + summary.failed = summary.total
    /\ summary.transcribed >= 0
    /\ summary.skipped >= 0
    /\ summary.failed >= 0
    /\ summary.transcribed = transcribed_count
    /\ summary.skipped = skipped_count

C4_Witness ==
  /\ summary.printed
  /\ summary.total = 2
  /\ summary.transcribed = 1
  /\ summary.skipped = 1

\* ---------------------------------------------------------------- C5
\* C5: the failed figure of the summary is the number of audio files for
\* which transcribe_audio returned None, and the skipped figure is the number
\* of audio files whose transcript already existed.
C5_FailedAreCounted ==
  summary.printed =>
    /\ summary.failed = nAbsent
    /\ summary.skipped = nExisted

\* ---------------------------------------------------------------- C6
\* C6: a pacing sleep separates any two consecutive transcriptions the service
\* completed, and no pacing sleep directly follows a skipped item, a failed
\* item or the final item.
C6_PacingBetweenSuccesses ==
  /\ (pc = "returned" /\ text.some) => sinceSuccess # "nosleep"
  /\ last.kind \in {"skipped", "absent"} => ~last.paced
  /\ (last.kind # "none" /\ last.idx = Len(all_mp3_files)) => ~last.paced

C8_ResolutionFailureIsFatal ==
  ToolFailed =>
    /\ Terminated
    /\ exit_code # 0
    /\ ~ENABLED Next
    /\ video_urls = <<>>
    /\ dlVisited = <<>>
    /\ visited = <<>>
    /\ apiCalls = 0
    /\ ~summary.printed

C8_Witness ==
  /\ resolved.kind = "json"
  /\ Len(resolved.entries) = 2
  /\ resolved.entries[1] \in VideoIds
  /\ resolved.entries[2] \notin VideoIds
  /\ Terminated

\* ---------------------------------------------------------------- C9
\* C9: the URLs handed to the downloader are the resolved list up to the
\* loop's position, and the audio files reached are the enumerated list up to
\* the loop's position, in list order and once each; a run that resolved its
\* URL ends only with both lists visited in full, whatever failed on the way.
C9_FailuresDoNotAbort ==
  /\ pc = "download" => dlVisited = SubSeq(video_urls, 1, vi - 1)
  /\ pc = "item" => visited = SubSeq(all_mp3_files, 1, i - 1)
  /\ pc = "returned" => visited = SubSeq(all_mp3_files, 1, i)
  /\ pc \in {"item", "returned"} => dlVisited = video_urls
  /\ (ToolSucceeded /\ Terminated) =>
       /\ dlVisited = video_urls
       /\ visited = all_mp3_files

C9_Witness ==
  /\ Terminated
  /\ Len(video_urls) = 2
  /\ video_urls[1] = video_urls[2]
  /\ downloaded_files = <<FileOf(video_urls[2])>>
  /\ Len(all_mp3_files) = 2
  /\ nAbsent = 1
  /\ last.kind = "ok"
  /\ last.idx = 2

\* ---------------------------------------------------------------- C10
\* C10: a call of transcribe_audio returns the text of its first successful
\* attempt, exactly as the service gave it, when an attempt is made and
\* succeeds, and None otherwise; the successful attempt is the last one, and
\* the call makes at most max_retries API calls.
C10_FirstSuccessOrNone ==
  tRet.done =>
    /\ \A n \in 1..tMax :
         (Reached(n) /\ tScript[n].kind = "ok")
           => /\ tRet.res.text = Some(tScript[n].text)
              /\ tRet.res.attempts = n
              /\ tRet.res.calls = ServiceCalls(n)
    /\ (~\E n \in 1..tMax : Reached(n) /\ tScript[n].kind = "ok")
         => tRet.res.text = None
    /\ tRet.res.calls <= tMax
    /\ tRet.res.attempts <= tMax

C10_Witness ==
  /\ tRet.done
  /\ tMax = max_retries
  /\ tScript[1].kind = "error"
  /\ tScript[2].kind = "ok" /\ tScript[2].text = ""
  /\ tScript[3].kind = "ok" /\ tScript[3].text = "hello"
  /\ tRet.res.text = Some("")
  /\ tRet.res.calls = 2

\* ---------------------------------------------------------------- C11
\* C11: when get_video_list returns, its result is the one-element list of
\* the url it was given if the metadata has no entries and has an identifier,
\* and otherwise the canonical watch URL of each entry, in the entries' order
\* and as many as there are entries.
C11_SingleVideoOrWatchUrls ==
  (gOut.done /\ gOut.returned) =>
    LET entries == gIn.tool.data.entries
    IN  IF entries = <<>> /\ gIn.tool.data.has_id
        THEN gOut.urls = <<gIn.url>>
        ELSE /\ Len(gOut.urls) = Len(entries)
             /\ \A k \in 1..Len(entries) : gOut.urls[k] = <<"watch", entries[k]>>

C11_Witness ==
  /\ gOut.done
  /\ gOut.returned
  /\ gIn.tool.data.has_id
  /\ gIn.tool.data.entries = <<2, 1>>
  /\ gOut.urls = <<WatchUrl(2), WatchUrl(1)>>

\* ---------------------------------------------------------------- C12
\* C12: when attempt n of a call (1-based, counting every earlier attempt)
\* fails without quota exhaustion and n < max_retries, the n-th sleep of the
\* call is n * 60 seconds after a rate-limit error and 5 seconds after any
\* other error; when attempt n = max_retries fails, no sleep follows it and
\* the call returns None.
C12_Backoff ==
  tRet.done =>
    \A n \in 1..tMax :
      (/\ Reached(n)
       /\ tScript[n].kind # "ok"
       /\ ~(tScript[n].kind = "ratelimit" /\ tScript[n].quota))
        => IF n < tMax
           THEN /\ Len(tRet.res.waits) >= n
                /\ tRet.res.waits[n] =
                     IF tScript[n].kind = "ratelimit" THEN n * 60 ELSE 5
           ELSE /\ Len(tRet.res.waits) = n - 1
                /\ tRet.res.attempts = n
                /\ tRet.res.text = None

C12_Witness ==
  /\ tRet.done
  /\ tMax = max_retries
  /\ tScript[1].kind = "error"
  /\ tScript[2].kind = "ratelimit" /\ ~tScript[2].quota
  /\ tScript[3].kind = "ratelimit" /\ ~tScript[3].quota
  /\ tRet.res.waits = <<5, 120>>
  /\ tRet.res.text = None

\* ---------------------------------------------------------------- C13
\* C13: from the end of the download phase on, the list the transcription
\* loop works through is every audio file of the download directory, fetched
\* by this run or not, in increasing file-name order; a step from an item
\* without a transcript is a call of transcribe_audio for it, and the summary
\* is printed only after every listed file was reached.
C13_AllAudioInOrder ==
  [][/\ (pc' \in {"item", "returned"} \/ summary'.printed) =>
          /\ Len(all_mp3_files') = Cardinality(downloads')
          /\ {all_mp3_files'[k] : k \in 1..Len(all_mp3_files')} = downloads'
          /\ \A j, k \in 1..Len(all_mp3_files') :
               j < k => all_mp3_files'[j] < all_mp3_files'[k]
     /\ (pc = "item" /\ i <= Len(all_mp3_files)
           /\ ~transcripts[all_mp3_files[i]].some) =>
          /\ pc' = "returned"
          /\ i' = i
          /\ visited' = Append(visited, all_mp3_files[i])
     /\ summary'.printed => visited' = all_mp3_files'
    ]_vars

C13_Witness ==
  /\ pc = "returned"
  /\ i = 2
  /\ Len(video_urls) = 1
  /\ FileOf(video_urls[1]) = all_mp3_files[2]
  /\ dlVisited = video_urls
  /\ downloaded_files = <<>>
  /\ ~transcripts[all_mp3_files[1]].some

\* ---------------------------------------------------------------- C14
\* C14: whenever transcribe_audio returned a text, the empty text included,
\* the next step writes exactly that text to the transcript of the audio file,
\* which exists afterwards, and adds exactly one to the transcribed count; the
\* transcripts change in no other step.
C14_EveryTextIsSaved ==
  [][/\ (pc = "returned" /\ text.some) =>
          /\ transcripts' = [transcripts EXCEPT ![all_mp3_files[i]] = text]
          /\ transcripts'[all_mp3_files[i]].some
          /\ transcribed_count' = transcribed_count + 1
     /\ transcripts' # transcripts => (pc = "returned" /\ text.some)
    ]_vars

C16_StrictPhases ==
  /\ pc \in {"client", "resolve", "download", "item", "returned", "exited"}
  /\ resolved.kind # "none" => client = "ok"
  /\ (dlVisited # <<>> \/ pc = "download") => (client = "ok" /\ ToolSucceeded)
  /\ (apiCalls > 0 \/ visited # <<>> \/ pc \in {"item", "returned"}) =>
       /\ dlVisited = video_urls
       /\ vi = Len(video_urls) + 1
  /\ pc \in {"client", "resolve", "download"} => (apiCalls = 0 /\ visited = <<>>)
  /\ summary.printed =>
       /\ Terminated
       /\ visited = all_mp3_files
       /\ i = Len(all_mp3_files) + 1
  /\ ~Terminated => ~summary.printed
  /\ Terminated => ~ENABLED Next

C16_Witness ==
  /\ Terminated
  /\ summary.printed
  /\ Len(dlVisited) = 2
  /\ Len(visited) = 2
  /\ apiCalls >= 2

\* ---------------------------------------------------------------- C17
\* C17: no step removes an audio file from the download directory or changes
\* a transcript that exists; the output directory changes only by the
\* creation of the transcript of the audio file being handled, which had no
\* transcript when it was checked.
C17_DiskOnlyAppended ==
  [][/\ downloads \subseteq downloads'
     /\ \A f \in Files : transcripts[f].some => transcripts'[f] = transcripts[f]
     /\ transcripts' # transcripts =>
          /\ pc = "returned"
          /\ ~transcripts[all_mp3_files[i]].some
          /\ transcripts'[all_mp3_files[i]].some
          /\ \A f \in Files \ {all_mp3_files[i]} : transcripts'[f] = transcripts[f]
          /\ downloads' = downloads
    ]_vars

C17_Witness ==
  /\ last.kind = "ok"
  /\ last.idx = 2
  /\ nExisted = 1
  /\ transcripts[all_mp3_files[1]] = Some(OldText)
  /\ transcripts[all_mp3_files[2]] = Some("hello")

\* ---------------------------------------------------------------- C18
\* C18: a call of download_audio_if_needed returns an asset exactly when the
\* downloader exited with status zero and the audio files after the call
\* include one that was not there before; the asset is one of the new files,
\* oversized or not; in every other case nothing is returned; and the number
\* of downloaded files main counts is the number of calls that returned an
\* asset.
C18_AssetIffNewFile ==
  /\ lastDl.called =>
       /\ (lastDl.ret # {}) <=> (lastDl.exit0 /\ lastDl.after \ lastDl.before # {})
       /\ lastDl.ret \subseteq lastDl.after \ lastDl.before
       /\ Cardinality(lastDl.ret) <= 1
       /\ lastDl.after = downloads
  /\ Len(downloaded_files) = nReturned
  /\ nReturned <= Len(dlVisited)

C18_Witness ==
  /\ lastDl.called
  /\ lastDl.exit0
  /\ lastDl.big
  /\ lastDl.ret = {2}
  /\ lastDl.before = {1}
  /\ downloaded_files = <<1, 2>>

\* ---------------------------------------------------------------- C19
\* the previous run ended with a transcript for every audio file of the
\* download directory, and the directory is as that run left it
SecondRunOverCompleteDisk ==
  /\ prev.ran
  /\ \A f \in prev.downloads : prev.transcripts[f].some
  /\ downloads = prev.downloads

\* C19: running again is idempotent: after a run that ended with a
\* transcript for every audio file, a second run over the unchanged download
\* directory makes no API call, writes no file, performs no pacing sleep and
\* reports transcribed = 0 and skipped = total; and an audio file the service
\* returned a text for in one run is never sent to the service in a later
\* run.
C19_RerunIsIdempotent ==
  [][/\ SecondRunOverCompleteDisk' =>
          /\ apiCalls' = 0
          /\ transcripts' = prev'.transcripts
          /\ transcribed_count' = 0
          /\ sinceSuccess' = "none"
          /\ ~sleepPending'
          /\ summary'.printed =>
               /\ summary'.transcribed = 0
               /\ summary'.skipped = summary'.total
               /\ summary'.total = Cardinality(downloads')
     /\ (pc = "item" /\ pc' = "returned" /\ apiCalls' > apiCalls) =>
          all_mp3_files[i] \notin prevText
    ]_vars

\* ---------------------------------------------------------------- C20
\* the phase of main the run is in, later phases lower
Phase ==
  CASE pc = "exited" -> 0
    [] pc \in {"item", "returned"} -> 1
    [] pc = "download" -> 2
    [] pc = "resolve" -> 3
    [] OTHER -> 4

\* the steps the current loop still has to take
Remaining ==
  CASE pc = "download" -> Len(video_urls) - vi + 1
    [] pc = "item" -> 2 * (Len(all_mp3_files) - i + 1) + 1
    [] pc = "returned" -> 2 * (Len(all_mp3_files) - i + 1)
    [] OTHER -> 0

\* C20: when every external call returns, a run terminates: a run that has
\* not ended can always take a step, every step moves to a later phase or
\* shortens the loop it is in, a call of transcribe_audio takes between one
\* and max_retries attempts, no audio file is handled twice in a run, and
\* the API calls of a run number at most max_retries times the audio files
\* that had no transcript.
C20_RunTerminates ==
  /\ [](/\ ~Terminated => ENABLED Next
        /\ Remaining >= 0
        /\ \A a \in CallAttempts : 1 <= a /\ a <= max_retries
        /\ \A j, k \in 1..Len(visited) : visited[j] = visited[k] => j = k
        /\ apiCalls <= max_retries * (Len(visited) - nExisted))
  /\ [][/\ \/ Phase' < Phase
           \/ Phase' = Phase /\ Remaining' < Remaining
        /\ apiCalls' - apiCalls \in 0..max_retries
        /\ apiCalls' > apiCalls => (pc = "item" /\ ~transcripts[all_mp3_files[i]].some)
       ]_vars

C20_Witness ==
  /\ Terminated
  /\ summary.printed
  /\ summary.total = 2
  /\ nExisted = 0
  /\ apiCalls = max_retries + max_retries
  /\ nAbsent = 2

====
